---- MODULE Spec2Model ----
(***************************************************************************)
(* Model of wasabi/src/run.ts: the funding-and-run control loop.           *)
(*                                                                         *)
(* Amounts are counted in units of 10^12 wei, the unit of the refund       *)
(* reserve toBaseUnits('420', 12); in that unit the eth transfer estimate  *)
(* 21000n * (4n * 10n ** 9n) is 84.  The optional parameter `loops` is a   *)
(* sequence: <<>> when the argument is omitted (undefined), <<n>> when the *)
(* caller supplied n.                                                      *)
(***************************************************************************)
EXTENDS Integers, Sequences, FiniteSets, TLC

\* ---------------------------------------------------------------- bounds
MaxRuns == 2        \* iterations explored when the loop has no reachable exit
MaxAttempts == 2    \* funding transfer attempts explored per iteration
MaxExternal == 1    \* unrelated credits of the process account explored
MaxEstLoops == 22   \* largest |loops| handed to the estimator on its own
MaxEstAgents == 4   \* largest numAgents handed to the estimator on its own
MaxE2EAgents == 6   \* largest numAgents of the single payment run

\* ---------------------------------------------------------------- inputs
LoopsInputs == {<<>>, <<-1>>, <<0>>, <<1>>, <<2>>}
AgentTypes == {"payment", "uniswap", "element", "bogus"}
NumAgentsInputs == {1, 4}
AgentCosts == {16, 33}
ExternalAmounts == {300, 1000}
EstLoopsInputs == {<<>>} \cup {<<k>> : k \in (0 - MaxEstLoops)..MaxEstLoops}
EstNumAgentsInputs == 0..MaxEstAgents

\* ---------------------------------------------------------------- constants
ethTransferEstimate == 84
fee == 420
defaultLoops == 10

VARIABLES
  pc,               \* position of run(): which await it is suspended at
  loops,            \* the loops argument
  agentType,        \* the agentType argument
  numAgents,        \* the numAgents argument
  runNumber,        \* the for-loop counter
  fundingThreshold, \* this iteration's threshold
  toFund,           \* this iteration's top-up amount
  processBalance,   \* public balance of processAddress
  value,            \* the refund value computed at teardown
  destroyed,        \* sdk.destroy() has been called
  failure,          \* which await rejected and ended run(), "none" otherwise
  fundingTransfers, \* amounts of the funding transfers submitted in the current iteration
  refundTransfers,  \* amounts of the refund transfers submitted
  trace,            \* events of the funding guard in the current iteration
  polls,            \* balances returned by the guard's polls in the current iteration
  started,          \* indexes of the iterations started, in order
  batchesDone,      \* number of agentManager.run() calls that resolved
  refundReads,      \* balances read by the refund step, in order
  externals,        \* number of unrelated credits received
  est,              \* the getAgentRequiredFunding calls that resolved: arguments and result
  estimatorIO       \* ledger client calls made by getAgentRequiredFunding in this iteration

vars == <<pc, loops, agentType, numAgents, runNumber, fundingThreshold, toFund,
          processBalance, value, destroyed, failure, fundingTransfers, refundTransfers, trace, polls,
          started, batchesDone, refundReads, externals, est, estimatorIO>>

inputs == <<loops, agentType, numAgents>>

\* ---------------------------------------------------------------- helpers
\* BigInt division truncates toward zero.
BigIntDiv(a, b) == IF a >= 0 THEN a \div b ELSE -((-a) \div b)

Min(a, b) == IF a <= b THEN a ELSE b

Last(s) == s[Len(s)]

Count(s, e) == Cardinality({i \in 1..Len(s) : s[i] = e})

\* variant: the parameter has no default and an omitted loops counts as zero
LoopsOrZero(l) == IF l = <<>> THEN 0 ELSE l[1]

\* loops = 10 default parameter of getAgentRequiredFunding
LoopsOrDefault(l) == IF l = <<>> THEN defaultLoops ELSE l[1]

\* variant: the manual payment requirement is multiplied by the agent count
RawValuePerAgentManual(kind, n, c, m) ==
  CASE kind = "uniswap" -> (ethTransferEstimate + c) * n
    [] kind = "element" -> (ethTransferEstimate + c + m) * n
    [] kind = "payment" -> (ethTransferEstimate + c) * n

\* the switch of getAgentRequiredFunding; c is what the agent class asks for,
\* m the manual payment agent's requirement
RawValue(kind, n, c, m) ==
  CASE kind = "uniswap" -> (ethTransferEstimate + c) * n
    [] kind = "element" -> (ethTransferEstimate + c) * n + m
    [] kind = "payment" -> (ethTransferEstimate + c) * n

SupportedKind(kind) == kind \in {"uniswap", "element", "payment"}

\* variant: the buffer counts the loops still to come down from the default
fundingBufferCountdown(l) == 5 * (defaultLoops - l)

fundingBufferPercent(l) == 5 * l

ToFund(v, l) == BigIntDiv(v * (100 + fundingBufferPercent(l)), 100)

\* the value getAgentRequiredFunding resolves to; l is the optional loops
getAgentRequiredFunding(kind, n, c, m, l) ==
  LET v == RawValue(kind, n, c, m) IN
    [fundingThreshold |-> v, toFund |-> ToFund(v, LoopsOrDefault(l))]

\* ManualPaymentAgent.getRequiredFunding is called for the element kind only
ManualCosts(kind) == IF kind = "element" THEN AgentCosts ELSE {0}

\* UniswapAgent and PaymentAgent getRequiredFunding take the sdk and are awaited
EstimatorCalls(kind) == IF kind \in {"uniswap", "payment"} THEN 1 ELSE 0

EstimateCall(l, c, m, r) ==
  [loops |-> l, agentCost |-> c, manualCost |-> m,
   fundingThreshold |-> r.fundingThreshold, toFund |-> r.toFund]

\* ---------------------------------------------------------------- initial state
Init ==
  /\ pc = "loop"
  /\ loops \in LoopsInputs
  /\ agentType \in AgentTypes
  /\ numAgents \in NumAgentsInputs
  /\ runNumber = 0
  /\ fundingThreshold = 0
  /\ toFund = 0
  /\ processBalance = 0
  /\ value = 0
  /\ destroyed = FALSE
  /\ failure = "none"
  /\ fundingTransfers = <<>>
  /\ refundTransfers = <<>>
  /\ trace = <<>>
  /\ polls = <<>>
  /\ started = <<>>
  /\ batchesDone = 0
  /\ refundReads = <<>>
  /\ externals = 0
  /\ est = <<>>
  /\ estimatorIO = 0

\* ---------------------------------------------------------------- the for loop
\* for (let runNumber = 0; runNumber !== loops; ...): the test passes
StartIteration ==
  /\ pc = "loop"
  /\ loops # <<runNumber>>
  /\ runNumber < MaxRuns
  /\ pc' = "estimate"
  /\ started' = Append(started, runNumber)
  /\ UNCHANGED <<inputs, est, estimatorIO, polls, trace, runNumber, fundingThreshold, toFund,
                 processBalance, value, destroyed, failure, fundingTransfers,
                 refundTransfers, batchesDone, refundReads, externals>>

\* variant: an omitted loops counts as zero
ExitLoopOmittedIsZero ==
  /\ pc = "loop"
  /\ (IF loops = <<>> THEN 0 ELSE loops[1]) = runNumber
  /\ pc' = "refund"
  /\ UNCHANGED <<inputs, est, estimatorIO, polls, runNumber, fundingThreshold, toFund, processBalance, value,
                 destroyed, failure, fundingTransfers, refundTransfers, trace, started, batchesDone,
                 refundReads, externals>>

\* variant: the loop goes on only while runNumber is below a supplied loops
ExitLoopNotBelow ==
  /\ pc = "loop"
  /\ loops # <<>> /\ runNumber >= loops[1]
  /\ pc' = "refund"
  /\ UNCHANGED <<inputs, est, estimatorIO, polls, runNumber, fundingThreshold, toFund, processBalance, value,
                 destroyed, failure, fundingTransfers, refundTransfers, trace, started, batchesDone,
                 refundReads, externals>>

\* variant: the loop test compares one iteration early
ExitLoopOffByOne ==
  /\ pc = "loop"
  /\ loops = <<runNumber + 1>>
  /\ pc' = "refund"
  /\ UNCHANGED <<inputs, est, estimatorIO, polls, runNumber, fundingThreshold, toFund, processBalance, value,
                 destroyed, failure, fundingTransfers, refundTransfers, trace, started, batchesDone,
                 refundReads, externals>>

\* the test fails: fall through to the refund
ExitLoop ==
  /\ pc = "loop"
  /\ loops = <<runNumber>>
  /\ pc' = "refund"
  /\ UNCHANGED <<inputs, est, estimatorIO, polls, runNumber, fundingThreshold, toFund, processBalance, value,
                 destroyed, failure, fundingTransfers, refundTransfers, trace, started, batchesDone,
                 refundReads, externals>>

\* ---------------------------------------------------------------- estimator
\* getAgentRequiredFunding resolves
Estimate ==
  /\ pc = "estimate"
  /\ SupportedKind(agentType)
  /\ \E c \in AgentCosts, m \in ManualCosts(agentType) :
       LET r == getAgentRequiredFunding(agentType, numAgents, c, m, loops) IN
         /\ fundingThreshold' = r.fundingThreshold
         /\ toFund' = r.toFund
         /\ est' = <<EstimateCall(loops, c, m, r)>>
  /\ estimatorIO' = EstimatorCalls(agentType)
  /\ pc' = "poll"
  /\ UNCHANGED <<inputs, polls, runNumber, processBalance, value, destroyed, failure,
                 fundingTransfers, refundTransfers, trace, started, batchesDone,
                 refundReads, externals>>

\* variant: the switch has no default and an unknown type estimates to zero
EstimateFailFallsThrough ==
  /\ pc = "estimate"
  /\ ~SupportedKind(agentType)
  /\ pc' = "poll"
  /\ UNCHANGED <<inputs, est, estimatorIO, polls, runNumber, fundingThreshold, toFund,
                 processBalance, value, destroyed, failure, fundingTransfers,
                 refundTransfers, trace, started, batchesDone, refundReads, externals>>

\* default: throw new Error(`Unknown agent type: ${agentType}`)
EstimateFail ==
  /\ pc = "estimate"
  /\ ~SupportedKind(agentType)
  /\ pc' = "error"
  /\ failure' = "estimate"
  /\ UNCHANGED <<inputs, est, estimatorIO, polls, runNumber, fundingThreshold, toFund, processBalance, value,
                 destroyed, fundingTransfers, refundTransfers, trace, started,
                 batchesDone, refundReads, externals>>

\* the awaited UniswapAgent / PaymentAgent getRequiredFunding(sdk, ...) rejects
EstimateReject ==
  /\ pc = "estimate"
  /\ agentType \in {"uniswap", "payment"}
  /\ pc' = "error"
  /\ failure' = "estimateRejected"
  /\ estimatorIO' = EstimatorCalls(agentType)
  /\ UNCHANGED <<inputs, est, polls, runNumber, fundingThreshold, toFund, processBalance, value,
                 destroyed, fundingTransfers, refundTransfers, trace, started,
                 batchesDone, refundReads, externals>>

\* ---------------------------------------------------------------- funding guard
\* variant: the balance is compared with the top-up amount
PollAgainstToFund ==
  /\ pc = "poll"
  /\ polls' = Append(polls, processBalance)
  /\ trace' = Append(trace, "poll")
  /\ pc' = IF processBalance < toFund THEN "transfer" ELSE "batch"
  /\ UNCHANGED <<inputs, est, estimatorIO, runNumber, fundingThreshold, toFund, processBalance, value,
                 destroyed, failure, fundingTransfers, refundTransfers, started, batchesDone, refundReads,
                 externals>>

\* while ((await sdk.getPublicBalance(0, processAddress)) < fundingThreshold)
Poll ==
  /\ pc = "poll"
  /\ polls' = Append(polls, processBalance)
  /\ trace' = Append(trace, "poll")
  /\ pc' = IF processBalance < fundingThreshold THEN "transfer" ELSE "batch"
  /\ UNCHANGED <<inputs, est, estimatorIO, runNumber, fundingThreshold, toFund, processBalance, value,
                 destroyed, failure, fundingTransfers, refundTransfers, started, batchesDone, refundReads,
                 externals>>

\* the balance query rejects: the while condition is outside the try block
PollFail ==
  /\ pc = "poll"
  /\ pc' = "error"
  /\ failure' = "poll"
  /\ UNCHANGED <<inputs, est, estimatorIO, polls, runNumber, fundingThreshold, toFund, processBalance, value,
                 destroyed, fundingTransfers, refundTransfers, trace, started,
                 batchesDone, refundReads, externals>>

\* variant: the threshold is transferred instead of the top-up amount
TransferThreshold ==
  /\ pc = "transfer"
  /\ Count(trace, "transfer") < MaxAttempts
  /\ fundingTransfers' = Append(fundingTransfers, fundingThreshold)
  /\ UNCHANGED refundTransfers
  /\ trace' = Append(trace, "transfer")
  /\ pc' = "receipt"
  /\ UNCHANGED <<inputs, est, estimatorIO, polls, runNumber, fundingThreshold, toFund, processBalance, value,
                 destroyed, failure, started, batchesDone, refundReads,
                 externals>>

\* asset.transfer(toFund, fundingAddress, processAddress) returns a txHash
Transfer ==
  /\ pc = "transfer"
  /\ Count(trace, "transfer") < MaxAttempts
  /\ fundingTransfers' = Append(fundingTransfers, toFund)
  /\ UNCHANGED refundTransfers
  /\ trace' = Append(trace, "transfer")
  /\ pc' = "receipt"
  /\ UNCHANGED <<inputs, est, estimatorIO, polls, runNumber, fundingThreshold, toFund, processBalance, value,
                 destroyed, failure, started, batchesDone, refundReads,
                 externals>>

\* asset.transfer rejects (nonce race, RPC failure): caught
TransferFail ==
  /\ pc = "transfer"
  /\ Count(trace, "transfer") < MaxAttempts
  /\ fundingTransfers' = Append(fundingTransfers, toFund)
  /\ UNCHANGED refundTransfers
  /\ trace' = Append(Append(trace, "transfer"), "transferThrew")
  /\ pc' = "backoff"
  /\ UNCHANGED <<inputs, est, estimatorIO, polls, runNumber, fundingThreshold, toFund, processBalance, value,
                 destroyed, failure, started, batchesDone, refundReads,
                 externals>>

\* variant: no break after the receipt, the while condition is tested again
ReceiptOkNoBreak ==
  /\ pc = "receipt"
  /\ processBalance' = processBalance + toFund
  /\ trace' = Append(trace, "receiptOk")
  /\ pc' = "poll"
  /\ UNCHANGED <<inputs, est, estimatorIO, polls, runNumber, fundingThreshold, toFund, value, destroyed,
                 failure, fundingTransfers, refundTransfers, started, batchesDone, refundReads,
                 externals>>

\* receipt.status is true: break
ReceiptOk ==
  /\ pc = "receipt"
  /\ processBalance' = processBalance + toFund
  /\ trace' = Append(trace, "receiptOk")
  /\ pc' = "batch"
  /\ UNCHANGED <<inputs, est, estimatorIO, polls, runNumber, fundingThreshold, toFund, value, destroyed,
                 failure, fundingTransfers, refundTransfers, started, batchesDone, refundReads,
                 externals>>

\* variant: a failed receipt re-polls at once, without the backoff sleep
ReceiptStatusFalseNoBackoff ==
  /\ pc = "receipt"
  /\ trace' = Append(trace, "statusFalse")
  /\ pc' = "poll"
  /\ UNCHANGED <<inputs, est, estimatorIO, polls, runNumber, fundingThreshold, toFund, processBalance, value,
                 destroyed, failure, fundingTransfers, refundTransfers, started, batchesDone, refundReads, externals>>

\* receipt.status is false: throw new Error('receipt status is false.'), caught
ReceiptStatusFalse ==
  /\ pc = "receipt"
  /\ trace' = Append(trace, "statusFalse")
  /\ pc' = "backoff"
  /\ UNCHANGED <<inputs, est, estimatorIO, polls, runNumber, fundingThreshold, toFund, processBalance, value,
                 destroyed, failure, fundingTransfers, refundTransfers, started, batchesDone, refundReads, externals>>

\* sdk.getTransactionReceipt rejects (timeout, RPC failure), caught; the
\* transaction itself may still have landed
ReceiptThrow ==
  /\ pc = "receipt"
  /\ processBalance' \in {processBalance, processBalance + toFund}
  /\ trace' = Append(trace, "receiptThrew")
  /\ pc' = "backoff"
  /\ UNCHANGED <<inputs, est, estimatorIO, polls, runNumber, fundingThreshold, toFund, value, destroyed,
                 failure, fundingTransfers, refundTransfers, started, batchesDone, refundReads,
                 externals>>

\* variant: after the sleep the transfer is retried without a balance poll
BackoffBlindRetry ==
  /\ pc = "backoff"
  /\ trace' = Append(trace, "backoff")
  /\ pc' = "transfer"
  /\ UNCHANGED <<inputs, est, estimatorIO, polls, runNumber, fundingThreshold, toFund, processBalance, value,
                 destroyed, failure, fundingTransfers, refundTransfers, started, batchesDone, refundReads,
                 externals>>

\* await new Promise(resolve => setTimeout(resolve, 5000)), then the while test
Backoff ==
  /\ pc = "backoff"
  /\ trace' = Append(trace, "backoff")
  /\ pc' = "poll"
  /\ UNCHANGED <<inputs, est, estimatorIO, polls, runNumber, fundingThreshold, toFund, processBalance, value,
                 destroyed, failure, fundingTransfers, refundTransfers, started, batchesDone, refundReads,
                 externals>>

\* an unrelated transfer credits the process account while run() is suspended
\* in the guard or before the refund's balance read
ExternalTopUp ==
  /\ pc \in {"poll", "backoff", "refund"}
  /\ externals < MaxExternal
  /\ externals' = externals + 1
  /\ \E a \in ExternalAmounts : processBalance' = processBalance + a
  /\ trace' = IF pc # "backoff" THEN trace
            ELSE IF processBalance' >= fundingThreshold
                   THEN Append(trace, "externalCross")
                   ELSE Append(trace, "external")
  /\ UNCHANGED <<inputs, est, estimatorIO, polls, pc, runNumber, fundingThreshold, toFund, value, destroyed,
                 failure, fundingTransfers, refundTransfers, started, batchesDone, refundReads>>

\* ---------------------------------------------------------------- batch
\* variant: the refund is attempted after every batch
BatchOkThenRefund ==
  /\ pc = "batch"
  /\ \E s \in {0, Min(processBalance, fundingThreshold)} :
       processBalance' = processBalance - s
  /\ batchesDone' = batchesDone + 1
  /\ runNumber' = runNumber + 1
  /\ pc' = "refund"
  /\ fundingThreshold' = 0
  /\ toFund' = 0
  /\ trace' = <<>>
  /\ polls' = <<>>
  /\ fundingTransfers' = <<>>
  /\ est' = <<>>
  /\ estimatorIO' = 0
  /\ UNCHANGED <<inputs, value, destroyed, failure, refundTransfers, started,
                 refundReads, externals>>

\* await agentManager.run() resolves; the iteration's block ends, and with it
\* its constants and the guard's history; ++runNumber
BatchOk ==
  /\ pc = "batch"
  /\ \E s \in {0, Min(processBalance, fundingThreshold)} :
       processBalance' = processBalance - s
  /\ batchesDone' = batchesDone + 1
  /\ runNumber' = runNumber + 1
  /\ pc' = "loop"
  /\ fundingThreshold' = 0
  /\ toFund' = 0
  /\ trace' = <<>>
  /\ polls' = <<>>
  /\ fundingTransfers' = <<>>
  /\ est' = <<>>
  /\ estimatorIO' = 0
  /\ UNCHANGED <<inputs, value, destroyed, failure, refundTransfers, started,
                 refundReads, externals>>

\* variant: the rejection of the batch is caught and the loop goes on
BatchFailSwallowed ==
  /\ pc = "batch"
  /\ \E s \in {0, Min(processBalance, fundingThreshold)} :
       processBalance' = processBalance - s
  /\ pc' = "loop"
  /\ runNumber' = runNumber + 1
  /\ failure' = "batch"
  /\ UNCHANGED <<inputs, est, estimatorIO, polls, fundingThreshold, toFund, value, destroyed,
                 fundingTransfers, refundTransfers, trace, started, batchesDone, refundReads,
                 externals>>

\* await agentManager.run() rejects: nothing catches it
BatchFail ==
  /\ pc = "batch"
  /\ \E s \in {0, Min(processBalance, fundingThreshold)} :
       processBalance' = processBalance - s
  /\ pc' = "error"
  /\ failure' = "batch"
  /\ UNCHANGED <<inputs, est, estimatorIO, polls, runNumber, fundingThreshold, toFund, value, destroyed,
                 fundingTransfers, refundTransfers, trace, started, batchesDone, refundReads,
                 externals>>

\* ---------------------------------------------------------------- teardown
\* variant: the reserve is not held back
RefundValueNoReserve(bal) == bal

RefundValue(bal) == bal - fee

\* const value = (await sdk.getPublicBalance(0, processAddress)) - fee; if (value > 0)
RefundRead ==
  /\ pc = "refund"
  /\ refundReads' = Append(refundReads, processBalance)
  /\ value' = RefundValue(processBalance)
  /\ pc' = IF value' > 0 THEN "refundTransfer" ELSE "destroy"
  /\ UNCHANGED <<inputs, est, estimatorIO, polls, runNumber, fundingThreshold, toFund, processBalance,
                 destroyed, failure, fundingTransfers, refundTransfers, trace, started, batchesDone,
                 externals>>

\* the refund's balance query rejects
RefundReadFail ==
  /\ pc = "refund"
  /\ pc' = "error"
  /\ failure' = "refundRead"
  /\ UNCHANGED <<inputs, est, estimatorIO, polls, runNumber, fundingThreshold, toFund, processBalance, value,
                 destroyed, fundingTransfers, refundTransfers, trace, started,
                 batchesDone, refundReads, externals>>

\* asset.transfer(value, processAddress, fundingAddress) returns a txHash
RefundTransfer ==
  /\ pc = "refundTransfer"
  /\ refundTransfers' = Append(refundTransfers, value)
  /\ UNCHANGED fundingTransfers
  /\ pc' = "refundReceipt"
  /\ UNCHANGED <<inputs, est, estimatorIO, polls, runNumber, fundingThreshold, toFund, processBalance, value,
                 destroyed, failure, trace, started, batchesDone, refundReads,
                 externals>>

\* the refund transfer rejects: nothing catches it
RefundTransferFail ==
  /\ pc = "refundTransfer"
  /\ refundTransfers' = Append(refundTransfers, value)
  /\ UNCHANGED fundingTransfers
  /\ pc' = "error"
  /\ failure' = "refundTransfer"
  /\ UNCHANGED <<inputs, est, estimatorIO, polls, runNumber, fundingThreshold, toFund, processBalance, value,
                 destroyed, trace, started, batchesDone, refundReads,
                 externals>>

\* await sdk.getTransactionReceipt(txHash) resolves; its status is not looked at
RefundReceipt ==
  /\ pc = "refundReceipt"
  /\ \E status \in BOOLEAN :
       processBalance' = IF status THEN processBalance - value ELSE processBalance
  /\ pc' = "destroy"
  /\ UNCHANGED <<inputs, est, estimatorIO, polls, runNumber, fundingThreshold, toFund, value, destroyed,
                 failure, fundingTransfers, refundTransfers, trace, started, batchesDone, refundReads,
                 externals>>

\* await sdk.getTransactionReceipt(txHash) rejects: nothing catches it
RefundReceiptFail ==
  /\ pc = "refundReceipt"
  /\ pc' = "error"
  /\ failure' = "refundReceipt"
  /\ UNCHANGED <<inputs, est, estimatorIO, polls, runNumber, fundingThreshold, toFund, processBalance, value,
                 destroyed, fundingTransfers, refundTransfers, trace, started,
                 batchesDone, refundReads, externals>>

\* await sdk.destroy()
Destroy ==
  /\ pc = "destroy"
  /\ destroyed' = TRUE
  /\ pc' = "done"
  /\ UNCHANGED <<inputs, est, estimatorIO, polls, runNumber, fundingThreshold, toFund, processBalance, value,
                 failure, fundingTransfers, refundTransfers, trace, started, batchesDone, refundReads,
                 externals>>

Next ==
  \/ StartIteration
  \/ ExitLoop
  \/ Estimate
  \/ EstimateFail
  \/ EstimateReject
  \/ Poll
  \/ PollFail
  \/ Transfer
  \/ TransferFail
  \/ ReceiptOk
  \/ ReceiptStatusFalse
  \/ ReceiptThrow
  \/ Backoff
  \/ ExternalTopUp
  \/ BatchOk
  \/ BatchFail
  \/ RefundRead
  \/ RefundReadFail
  \/ RefundTransfer
  \/ RefundTransferFail
  \/ RefundReceipt
  \/ RefundReceiptFail
  \/ Destroy

Spec == Init /\ [][Next]_vars

\* ---------------------------------------------------------------- the estimator alone
\* getAgentRequiredFunding called twice with the same workload and agent
\* requirements, each time with a loops argument of its own
EstInit ==
  /\ pc = "estimate"
  /\ loops = <<>>
  /\ agentType \in AgentTypes
  /\ numAgents \in EstNumAgentsInputs
  /\ runNumber = 0
  /\ fundingThreshold = 0
  /\ toFund = 0
  /\ processBalance = 0
  /\ value = 0
  /\ destroyed = FALSE
  /\ failure = "none"
  /\ fundingTransfers = <<>>
  /\ refundTransfers = <<>>
  /\ trace = <<>>
  /\ polls = <<>>
  /\ started = <<>>
  /\ batchesDone = 0
  /\ refundReads = <<>>
  /\ externals = 0
  /\ est = <<>>
  /\ estimatorIO = 0

\* getAgentRequiredFunding resolves
EstCall ==
  /\ pc = "estimate"
  /\ SupportedKind(agentType)
  /\ Len(est) < 2
  /\ \E l \in EstLoopsInputs, c \in AgentCosts, m \in ManualCosts(agentType) :
       /\ est # <<>> => c = est[1].agentCost /\ m = est[1].manualCost
       /\ LET r == getAgentRequiredFunding(agentType, numAgents, c, m, l) IN
            /\ fundingThreshold' = r.fundingThreshold
            /\ toFund' = r.toFund
            /\ est' = Append(est, EstimateCall(l, c, m, r))
  /\ estimatorIO' = estimatorIO + EstimatorCalls(agentType)
  /\ UNCHANGED <<inputs, pc, polls, runNumber, processBalance, value, destroyed, failure,
                 fundingTransfers, refundTransfers, trace, started, batchesDone,
                 refundReads, externals>>

\* default: throw new Error(`Unknown agent type: ${agentType}`)
EstCallFail ==
  /\ pc = "estimate"
  /\ ~SupportedKind(agentType)
  /\ pc' = "error"
  /\ failure' = "estimate"
  /\ UNCHANGED <<inputs, est, estimatorIO, polls, runNumber, fundingThreshold, toFund,
                 processBalance, value, destroyed, fundingTransfers, refundTransfers,
                 trace, started, batchesDone, refundReads, externals>>

EstNext ==
  \/ EstCall
  \/ EstCallFail

EstSpec == EstInit /\ [][EstNext]_vars

\* ---------------------------------------------------------------- one payment run
\* run() for the payment kind with loops = 1, a fresh process account and
\* every ledger call succeeding
E2ENumAgentsInputs == 1..MaxE2EAgents

E2EInit ==
  /\ pc = "loop"
  /\ loops = <<1>>
  /\ agentType = "payment"
  /\ numAgents \in E2ENumAgentsInputs
  /\ runNumber = 0
  /\ fundingThreshold = 0
  /\ toFund = 0
  /\ processBalance = 0
  /\ value = 0
  /\ destroyed = FALSE
  /\ failure = "none"
  /\ fundingTransfers = <<>>
  /\ refundTransfers = <<>>
  /\ trace = <<>>
  /\ polls = <<>>
  /\ started = <<>>
  /\ batchesDone = 0
  /\ refundReads = <<>>
  /\ externals = 0
  /\ est = <<>>
  /\ estimatorIO = 0

E2ENext ==
  \/ StartIteration
  \/ ExitLoop
  \/ Estimate
  \/ Poll
  \/ Transfer
  \/ ReceiptOk
  \/ BatchOk
  \/ RefundRead
  \/ RefundTransfer
  \/ RefundReceipt
  \/ Destroy

E2ESpec == E2EInit /\ [][E2ENext]_vars

TypeOK ==
  /\ pc \in {"loop", "estimate", "poll", "transfer", "receipt", "backoff", "batch",
             "refund", "refundTransfer", "refundReceipt", "destroy", "done", "error"}
  /\ loops \in LoopsInputs
  /\ runNumber \in 0..MaxRuns
  /\ processBalance \in Nat
  /\ destroyed \in BOOLEAN
  /\ failure \in {"none", "estimate", "estimateRejected", "poll", "batch", "refundRead",
                 "refundTransfer",
                 "refundReceipt"}

\* ---------------------------------------------------------------- properties
InIteration == {"estimate", "poll", "transfer", "receipt", "backoff", "batch"}

InTeardown == {"refund", "refundTransfer", "refundReceipt", "destroy", "done"}

\* the guard's own events, without the unrelated transfers seen meanwhile
GuardTrace == SelectSeq(trace, LAMBDA e : e \notin {"external", "externalCross"})

AttemptFailed == {"transferThrew", "statusFalse", "receiptThrew"}

LoopsSupplied == loops # <<>> /\ loops[1] >= 0

\* C1: whenever the batch of an iteration is about to be started, the process
\* account holds at least that iteration's threshold, and the guard was left
\* either by a poll that returned at least the threshold or by a top-up
\* confirmed by a receipt with success status.
C1_BatchStartsFunded ==
  pc = "batch" =>
    /\ processBalance >= fundingThreshold
    /\ \/ Last(trace) = "poll" /\ Last(polls) >= fundingThreshold
       \/ Last(trace) = "receiptOk"

\* C2: with a supplied loop count N >= 0 the iterations are labeled 0, 1, ...
\* in increasing order and never exceed N, an iteration is started only after
\* the batch of the previous one has completed, a batch is preceded by its
\* iteration's funding check, and the loop is left after exactly N batches.
C2_IterationsInOrder ==
  /\ started = [i \in 1..Len(started) |-> i - 1]
  /\ Len(started) = IF pc \in InIteration
                      THEN batchesDone + 1
                      ELSE IF pc = "error" /\ failure \in {"estimate", "estimateRejected", "poll", "batch"}
                             THEN batchesDone + 1
                             ELSE batchesDone
  /\ pc = "batch" => Len(polls) >= 1 /\ trace[1] = "poll"
  /\ LoopsSupplied => Len(started) <= loops[1]
  /\ LoopsSupplied /\ pc \in InTeardown
       => batchesDone = loops[1] /\ Len(started) = loops[1] /\ runNumber = loops[1]

C2_Witness ==
  /\ pc = "done"
  /\ loops = <<2>>
  /\ started = <<0, 1>>
  /\ batchesDone = 2

\* C3: a failure in the funding phase of an iteration never ends run() with
\* an error.
C3_FundingFailureRecovered ==
  pc = "error" => failure \notin {"poll"}

\* C4: once the iteration loop has completed, run() does not end without
\* sdk.destroy() having been called, also when the refund transfer or its
\* receipt wait raised an error.
C4_SessionClosedAfterLoop ==
  (pc = "done" \/ (pc = "error" /\ failure \in {"refundTransfer", "refundReceipt"}))
    => destroyed

\* C5: once an unrelated transfer received during a backoff sleep has lifted
\* the balance to the threshold, the next poll leaves the guard and the
\* iteration submits no further funding transfer.
C5_ExternalTopUpEndsGuard ==
  \A i \in 1..Len(trace) :
    trace[i] = "externalCross" =>
      /\ \A j \in (i + 1)..Len(trace) :
           trace[j] \in {"external", "externalCross", "backoff", "poll"}
      /\ Count(SubSeq(trace, i, Len(trace)), "poll") <= 1
      /\ pc \notin {"transfer", "receipt"}
      /\ Len(fundingTransfers) = Count(SubSeq(trace, 1, i), "transfer")

C5_Witness ==
  /\ pc = "batch"
  /\ Count(trace, "externalCross") >= 1
  /\ Count(trace, "transfer") = 1
  /\ Last(trace) = "poll"
  /\ polls[1] < fundingThreshold

\* C6: every funding transfer attempt after the first of an iteration is
\* preceded by the failure of the previous attempt, then exactly one backoff,
\* then one balance poll; a receipt with success status ends the guard.
C6_BackoffAndPollBetweenAttempts ==
  LET g == GuardTrace IN
    /\ \A i \in 1..Len(g) :
         g[i] = "transfer" =>
           /\ i >= 2 /\ g[i - 1] = "poll"
           /\ i = 2 \/ ( /\ i >= 6
                         /\ g[i - 2] = "backoff"
                         /\ g[i - 3] \in AttemptFailed
                         /\ g[i - 4] \in {"transfer", "transferThrew"}
                         /\ g[i - 3] # "transferThrew" => g[i - 4] = "transfer" )
    /\ Len(fundingTransfers) = Count(g, "transfer")
    /\ \A i \in 1..Len(g) :
         g[i] = "receiptOk" => i = Len(g) /\ pc \notin {"poll", "transfer", "receipt", "backoff"}

C6_Witness ==
  /\ pc = "batch"
  /\ GuardTrace = <<"poll", "transfer", "statusFalse", "backoff", "poll", "transfer", "receiptOk">>
  /\ Len(fundingTransfers) = 2

\* C7: when the first poll of an iteration returns at least the threshold,
\* the iteration submits no funding transfer and performs no backoff.
C7_NoTransferWhenFunded ==
  (Len(polls) >= 1 /\ polls[1] >= fundingThreshold) =>
    /\ trace = <<"poll">>
    /\ fundingTransfers = <<>>
    /\ pc \notin {"transfer", "receipt", "backoff"}

C7_Witness ==
  /\ pc = "batch"
  /\ polls[1] >= fundingThreshold
  /\ fundingThreshold > 0
  /\ runNumber = 1

\* C8: the refund step runs at most once, only after the last iteration's
\* batch has completed and never while an iteration is under way or still to
\* come; at most one refund transfer is submitted; a run that finishes has run
\* the refund step exactly once.
C8_RefundOnceAfterLastIteration ==
  /\ Len(refundReads) <= 1
  /\ Len(refundTransfers) <= 1
  /\ (pc \in InIteration \/ pc = "loop") => refundReads = <<>> /\ refundTransfers = <<>>
  /\ (refundReads # <<>> \/ refundTransfers # <<>>) =>
       /\ loops = <<batchesDone>>
       /\ Len(started) = batchesDone
       /\ fundingTransfers = <<>>
       /\ pc \in {"refundTransfer", "refundReceipt", "destroy", "done", "error"}
       /\ pc = "error" => failure \in {"refundTransfer", "refundReceipt"}
  /\ pc \in {"refundTransfer", "refundReceipt", "destroy", "done"} => Len(refundReads) = 1

C8_Witness ==
  /\ pc = "error"
  /\ failure = "refundTransfer"
  /\ batchesDone = 2
  /\ Len(refundTransfers) = 1

\* C9: the refund value is one balance read minus the reserve of 420; a
\* positive value is transferred exactly (1000 gives 580), a value that is
\* not positive leads to no transfer (300).
C9_RefundValue ==
  /\ \A i \in 1..Len(refundTransfers) :
       /\ Len(refundReads) = 1
       /\ refundTransfers[i] = refundReads[1] - 420
       /\ refundTransfers[i] > 0
  /\ (Len(refundReads) = 1 /\ refundReads[1] <= 420) =>
       refundTransfers = <<>> /\ pc \in {"destroy", "done"}
  /\ (Len(refundReads) = 1 /\ refundReads[1] > 420 /\ pc \in {"refundReceipt", "destroy", "done"})
       => Len(refundTransfers) = 1
  /\ (refundReads = <<1000>> /\ pc = "done") => refundTransfers = <<580>>
  /\ refundReads = <<300>> => refundTransfers = <<>>

C9_Witness ==
  /\ pc = "done"
  /\ refundReads = <<1000>>
  /\ refundTransfers = <<580>>

C9_WitnessNoRefund ==
  /\ pc = "done"
  /\ refundReads = <<300>>
  /\ refundTransfers = <<>>

\* C10: when the batch of iteration i fails, run() ends with that error: no
\* later iteration is started, no funding transfer follows and no refund
\* transfer is submitted.
C10_BatchFailureAborts ==
  failure = "batch" =>
    /\ pc = "error"
    /\ Len(started) = runNumber + 1
    /\ batchesDone = runNumber
    /\ Len(fundingTransfers) = Count(trace, "transfer")
    /\ Last(trace) \in {"poll", "receiptOk"}
    /\ refundReads = <<>>
    /\ refundTransfers = <<>>
    /\ ~destroyed

C10_Witness ==
  /\ failure = "batch"
  /\ runNumber = 1
  /\ Len(fundingTransfers) >= 1

\* ---------------------------------------------------------------- properties of the estimator
\* the loops value a call works with: the argument, or 10 when it is omitted
LoopsOf(e) == IF e.loops = <<>> THEN 10 ELSE e.loops[1]

\* the raw value of a call, from its recorded arguments
RawOf(e) ==
  IF agentType = "element"
    THEN (84 + e.agentCost) * numAgents + e.manualCost
    ELSE (84 + e.agentCost) * numAgents

\* C11: for every supported kind and every agent count, agent requirement and
\* loops value the estimate satisfies toFund >= fundingThreshold >= 0.
C11_TopUpCoversThreshold ==
  \A i \in 1..Len(est) :
    est[i].toFund >= est[i].fundingThreshold /\ est[i].fundingThreshold >= 0

\* C12: for the same kind, agent count and agent requirements, a smaller
\* loops value never gives a larger toFund, and fundingThreshold does not
\* depend on loops.
C12_MonotonicInLoops ==
  \A i, j \in 1..Len(est) :
    /\ est[i].fundingThreshold = est[j].fundingThreshold
    /\ LoopsOf(est[i]) < LoopsOf(est[j]) => est[i].toFund <= est[j].toFund

C12_Witness ==
  /\ Len(est) = 2
  /\ est[1].loops = <<1>>
  /\ est[2].loops = <<2>>
  /\ est[1].toFund < est[2].toFund

C13_UnsupportedKindAborts ==
  /\ failure = "estimate" =>
       /\ agentType \notin {"uniswap", "element", "payment"}
       /\ pc = "error"
       /\ estimatorIO = 0
       /\ est = <<>>
  /\ (agentType \notin {"uniswap", "element", "payment"} /\ started # <<>>) =>
       /\ started = <<0>>
       /\ pc \in {"estimate", "error"}
       /\ pc = "error" => failure = "estimate"
       /\ estimatorIO = 0
       /\ polls = <<>> /\ trace = <<>>
       /\ fundingTransfers = <<>>
       /\ batchesDone = 0
       /\ refundReads = <<>> /\ refundTransfers = <<>>

C13_Witness ==
  /\ agentType = "bogus"
  /\ failure = "estimate"
  /\ started = <<0>>
  /\ loops = <<2>>

\* C14: with loops omitted the loop has no exit: from the loop test the run
\* can only start the next iteration, and the refund step and sdk.destroy()
\* are never reached.
C14_OmittedLoopsNeverExits ==
  /\ [](loops = <<>> =>
          /\ pc \notin InTeardown
          /\ ~destroyed
          /\ refundReads = <<>> /\ refundTransfers = <<>>
          /\ Len(started) >= batchesDone
          /\ pc = "loop" => ~ENABLED ExitLoop /\ (runNumber < MaxRuns => ENABLED StartIteration))
  /\ [][(loops = <<>> /\ pc = "loop") =>
          (pc' = "estimate" /\ started' = Append(started, batchesDone))]_vars

C14_Witness ==
  /\ loops = <<>>
  /\ pc = "estimate"
  /\ started = <<0, 1>>
  /\ batchesDone = 1

\* C20: with a negative loops the loop test never fails either: the run
\* starts a new iteration after every batch and reaches neither the refund
\* step nor sdk.destroy().
C20_NegativeLoopsNeverExits ==
  /\ []((loops # <<>> /\ loops[1] < 0) =>
          /\ pc \notin InTeardown
          /\ ~destroyed
          /\ refundReads = <<>> /\ refundTransfers = <<>>
          /\ pc = "loop" => ~ENABLED ExitLoop /\ (runNumber < MaxRuns => ENABLED StartIteration))
  /\ [][(loops # <<>> /\ loops[1] < 0 /\ pc = "loop") =>
          (pc' = "estimate" /\ started' = Append(started, batchesDone))]_vars

C20_Witness ==
  /\ loops = <<-1>>
  /\ pc = "estimate"
  /\ started = <<0, 1>>
  /\ batchesDone = 1

\* C15: a payment run with loops = 1 from balance 0 in which every ledger
\* call succeeds submits exactly one funding transfer, of the estimated
\* toFund (105% of the threshold), runs exactly one batch, and at teardown
\* transfers the balance left by the batch minus 420 when that is positive and
\* nothing otherwise.
C15_EndToEndPayment ==
  /\ Len(fundingTransfers) <= 1
  /\ batchesDone <= 1
  /\ pc \in {"receipt", "batch"} =>
       /\ fundingTransfers = <<toFund>>
       /\ polls = <<0>>
       /\ fundingThreshold = (84 + est[1].agentCost) * numAgents
       /\ toFund = (fundingThreshold * 105) \div 100
  /\ pc = "batch" => processBalance = toFund /\ trace = <<"poll", "transfer", "receiptOk">>
  /\ (pc = "loop" /\ runNumber = 1) => batchesDone = 1 /\ ~ENABLED StartIteration
  /\ pc \in InTeardown => batchesDone = 1 /\ started = <<0>> /\ fundingTransfers = <<>>
  /\ pc \in {"refundTransfer", "refundReceipt"} => refundReads = <<processBalance>>
  /\ pc \in {"refundReceipt", "destroy", "done"} =>
       refundTransfers = IF refundReads[1] - 420 > 0 THEN <<refundReads[1] - 420>> ELSE <<>>
  /\ pc = "refund" => refundTransfers = <<>>

C15_Witness ==
  /\ pc = "done"
  /\ numAgents = 4
  /\ refundReads = <<491>>
  /\ refundTransfers = <<71>>
  /\ processBalance = 420

\* C16: every funding transfer of an iteration is of that iteration's toFund
\* and is credited to the process account; at most one is confirmed by a
\* receipt with success status, and that receipt ends the guard without
\* another poll.
C16_TransfersOfToFund ==
  /\ \A i \in 1..Len(fundingTransfers) :
       fundingTransfers[i] = toFund /\ toFund = est[1].toFund
  /\ Count(trace, "receiptOk") <= 1
  /\ \A i \in 1..Len(trace) :
       trace[i] = "receiptOk" =>
         /\ i = Len(trace)
         /\ trace[i - 1] = "transfer"
         /\ pc \in {"batch", "error"}
         /\ pc = "batch" => processBalance = Last(polls) + toFund
         /\ Len(polls) = Count(trace, "transfer")

C16_Witness ==
  /\ pc = "batch"
  /\ Last(trace) = "receiptOk"
  /\ Len(fundingTransfers) = 2
  /\ Count(trace, "statusFalse") = 1

\* C18: a run with a supplied loops >= 0 whose iterations have all completed
\* ends, when it ends, with the refund step run and the session closed.
C18_BoundedRunFinishes ==
  (LoopsSupplied /\ batchesDone = loops[1] /\ pc \in {"done", "error"}) =>
    /\ pc = "done"
    /\ Len(refundReads) = 1
    /\ destroyed

\* C19: with loops omitted every iteration is estimated with the default of
\* 10 loops: toFund is the floor of 150% of the threshold, whatever the
\* iteration index.
C19_DefaultBufferEveryIteration ==
  (loops = <<>> /\ est # <<>>) =>
    /\ est[1].loops = <<>>
    /\ fundingThreshold = est[1].fundingThreshold
    /\ toFund = est[1].toFund
    /\ toFund = (fundingThreshold * 150) \div 100

C19_Witness ==
  /\ loops = <<>>
  /\ runNumber = 1
  /\ pc = "poll"
  /\ fundingThreshold = 117
  /\ toFund = 175
====
